---------------------------- MODULE Spec2Model ----------------------------
(***************************************************************************)
(* Model of src/mcp_server.py: the AnChain.AI AML MCP server.              *)
(*                                                                         *)
(* The server has two module globals (remote, anchain_apikey) that main()  *)
(* sets before the transport starts, and eight tool handlers.  Every       *)
(* handler resolves a credential with check_apikey(), issues one request   *)
(* to the vendor API with the requests library and returns the decoded     *)
(* JSON body; get_transaction trims the body first.                        *)
(*                                                                         *)
(* Python values are modelled as follows.                                  *)
(*   - an Optional argument is None (the empty tuple) or Some(v) = <<v>>;  *)
(*   - a dict is a function whose DOMAIN is the set of its keys;           *)
(*   - a decoded JSON value carries its Python type as its field name,     *)
(*     since subscripting and pop() behave differently on dict, list, str  *)
(*     and None.                                                           *)
(***************************************************************************)
EXTENDS Naturals, Sequences, FiniteSets, TLC

VARIABLES
    argv,            \* parsed command line: [rm, apikey]
    environ,         \* os.environ.get("ANCHAIN_APIKEY")
    phase,           \* "boot" before main() ran, then "serving" or "failed"
    remote,          \* module global remote
    anchain_apikey,  \* module global anchain_apikey
    pc,              \* per request slot: position of the handler
    call,            \* per request slot: tool name and arguments
    headers,         \* per request slot: HTTP headers of the inbound request
    apikey,          \* per request slot: the handler's local variable apikey
    outbound,        \* per request slot: requests issued by this invocation
    reply,           \* per request slot: what the vendor API answered
    result           \* per request slot: what the invocation gave its caller

vars == <<argv, environ, phase, remote, anchain_apikey,
          pc, call, headers, apikey, outbound, reply, result>>

globals == <<argv, environ, phase, remote, anchain_apikey>>

-----------------------------------------------------------------------------
(* Bounds *)

\* Number of inbound requests the transport may be handling at once.
NumReq == 2

Req == 1 .. NumReq

-----------------------------------------------------------------------------
(* Python values *)

None == <<>>
Some(v) == <<v>>

\* Python truthiness of an Optional[str]: None and "" are falsy.
TruthyStr(o) == o # None /\ o[1] # ""
\* Python truthiness of an Optional[list]: None and [] are falsy.
TruthyList(o) == o # None /\ o[1] # <<>>
\* Python truthiness of an Optional[int]: None and 0 are falsy.
TruthyInt(o) == o # None /\ o[1] # 0

EmptyDict == [k \in {} |-> None]

\* d.update({k: v})
DictUpdate(d, k, v) == [x \in (DOMAIN d) \cup {k} |-> IF x = k THEN v ELSE d[x]]

\* d with key k deleted
DictWithout(d, k) == [x \in (DOMAIN d) \ {k} |-> d[x]]

\* d.get(k, default)
DictGet(d, k, default) == IF k \in DOMAIN d THEN d[k] ELSE default

\* Decoded JSON values.
JNull == [null |-> TRUE]
JStr(s) == [str |-> s]
JList(s) == [list |-> s]
JObj(f) == [dict |-> f]
IsDict(v) == DOMAIN v = {"dict"}
IsList(v) == DOMAIN v = {"list"}

\* How a handler ends.
Return(v) == [kind |-> "return", value |-> v]
Raise(e) == [kind |-> "raise", exc |-> e]
NoResult == [kind |-> "none"]

NoCall == [tool |-> "none"]


-----------------------------------------------------------------------------
(* Module globals and constants of the source *)

url == "https://aml.anchainai.com/api"

DefaultSchema == "person"
DefaultScope == "basic"
DefaultDirection == "in"
DefaultTimeWindow == 365
DefaultMinAmount == 0
DefaultTxScope == "summary"

\* The value a parameter is bound to: the passed one, else its default.
Bind(passed, default) == IF passed = None THEN default ELSE passed[1]

XApiKey(v) == "x-api-key" :> v

\* f"Bearer {apikey}"
Bearer(key) == "Bearer " \o key

-----------------------------------------------------------------------------
(* check_apikey *)

\* Mutant: one request context shared by all invocations.
get_http_headers_shared(i) == headers[CHOOSE j \in Req : pc[j] # "idle"]

\* fastmcp's get_http_headers(): the headers of the request being handled
\* by the calling invocation (a context variable, one per request).
get_http_headers(i) == headers[i]

\* Mutant: the inbound header wins over the stored key whenever it is there.
resolved_apikey_header_first(i) ==
    IF remote \/ "x-api-key" \in DOMAIN get_http_headers(i)
      THEN Some(DictGet(get_http_headers(i), "x-api-key", ""))
      ELSE anchain_apikey

\* The value check_apikey assigns to its local apikey.
resolved_apikey(i) ==
    IF remote
      THEN Some(DictGet(get_http_headers(i), "x-api-key", ""))
      ELSE anchain_apikey

\* Mutant: "if apikey is None" in place of "if not apikey".
check_apikey_none_only(i) ==
    LET key == resolved_apikey(i)
    IN  IF key = None
          THEN Raise("ValidationError")
          ELSE Return(key[1])

check_apikey(i) ==
    LET key == resolved_apikey(i)
    IN  IF ~TruthyStr(key)
          THEN Raise("ValidationError")
          ELSE Return(key[1])

-----------------------------------------------------------------------------
(* Request construction, one operator per tool *)

AuthHeaders(key) == [Authorization |-> Bearer(key)]

Get(path, params, key) ==
    [method |-> "GET", url |-> url \o path, params |-> params,
     headers |-> AuthHeaders(key)]

Post(path, payload, key) ==
    [method |-> "POST", url |-> url \o path, json |-> payload,
     headers |-> AuthHeaders(key)]

crypto_screening_request(c, key) ==
    Get("/crypto_screening",
        [protocol |-> c.protocol, address |-> c.address, action |-> "score"], key)

crypto_activity_screening_request(c, key) ==
    Get("/crypto_screening",
        [protocol |-> c.protocol, address |-> c.address, action |-> "activity"], key)

crypto_attribution_screening_request(c, key) ==
    Get("/crypto_screening",
        [protocol |-> c.protocol, address |-> c.address, action |-> "attribution"], key)

\* Mutant: "is not None" in place of truthiness.
sanctions_properties_not_none(c) ==
    LET p0 == EmptyDict
        p1 == IF c.name # None THEN DictUpdate(p0, "name", c.name[1]) ELSE p0
        p2 == IF c.idNumber # None
                THEN DictUpdate(p1, "idNumber", c.idNumber[1]) ELSE p1
        p3 == IF c.nationality # None
                THEN DictUpdate(p2, "nationality", c.nationality[1]) ELSE p2
        p4 == IF c.birthYear # None
                THEN DictUpdate(p3, "birthYear", c.birthYear[1]) ELSE p3
    IN  p4

\* The four conditional updates of payload['properties'].
sanctions_properties(c) ==
    LET p0 == EmptyDict
        p1 == IF TruthyList(c.name) THEN DictUpdate(p0, "name", c.name[1]) ELSE p0
        p2 == IF TruthyList(c.idNumber)
                THEN DictUpdate(p1, "idNumber", c.idNumber[1]) ELSE p1
        p3 == IF TruthyList(c.nationality)
                THEN DictUpdate(p2, "nationality", c.nationality[1]) ELSE p2
        p4 == IF TruthyList(c.birthYear)
                THEN DictUpdate(p3, "birthYear", c.birthYear[1]) ELSE p3
    IN  p4

sanctions_payload(c) ==
    [schema |-> Bind(c.schema, DefaultSchema),
     scope |-> Bind(c.scope, DefaultScope),
     properties |-> sanctions_properties(c)]

sanctions_screening_request(c, key) ==
    Post("/sanctions_screening", sanctions_payload(c), key)

ip_screening_request(c, key) ==
    Get("/ip_screening", [ip_address |-> c.ip_address], key)

\* Mutant: two independent ifs in place of if/else.
auto_trace_target_both(base, address, txn_hash) ==
    LET p == IF TruthyStr(address)
               THEN DictUpdate(base, "address", address[1]) ELSE base
    IN  IF TruthyStr(txn_hash) THEN DictUpdate(p, "txnhash", txn_hash) ELSE p

\* if address: ... else: ...   The 'txnhash' entry holds txn_hash as passed,
\* None included; every other optional entry holds a plain value.
auto_trace_target(base, address, txn_hash) ==
    IF TruthyStr(address)
      THEN DictUpdate(base, "address", address[1])
      ELSE DictUpdate(base, "txnhash", txn_hash)

auto_trace_payload(c) ==
    LET p0 == [proto |-> c.protocol,
               direct |-> Bind(c.direction, DefaultDirection),
               time_from |-> c.time_from,
               time_to |-> c.time_to,
               time_window |-> Bind(c.time_window, DefaultTimeWindow),
               min_amount |-> Bind(c.min_amount, DefaultMinAmount)]
        p1 == auto_trace_target(p0, c.address, c.txn_hash)
        p2 == IF TruthyInt(c.max_amount)
                THEN DictUpdate(p1, "max_amount", c.max_amount[1]) ELSE p1
        p3 == IF TruthyStr(c.token) THEN DictUpdate(p2, "token", c.token[1]) ELSE p2
    IN  p3

auto_trace_request(c, key) ==
    Post("/crypto_auto_trace", auto_trace_payload(c), key)

get_source_code_request(c, key) ==
    Get("/smart_contract_agent",
        [action |-> "contract", protocol |-> c.protocol,
         contract_address |-> c.address], key)

get_transaction_request(c, key) ==
    Get("/smart_contract_agent",
        [action |-> "transaction", protocol |-> c.protocol,
         transaction_hash |-> c.transaction_hash], key)

-----------------------------------------------------------------------------
(* get_transaction: trimming of the decoded body *)

Raised(r) == r.kind = "raise"

\* v[k] for a string key k
Subscript(v, k) ==
    IF IsDict(v)
      THEN IF k \in DOMAIN v.dict THEN Return(v.dict[k]) ELSE Raise("KeyError")
      ELSE Raise("TypeError")

\* v.pop(k) for a string key k: the value popped, or the exception
Pop(v, k) ==
    IF IsDict(v)
      THEN IF k \in DOMAIN v.dict THEN Return(v.dict[k]) ELSE Raise("KeyError")
      ELSE IF IsList(v) THEN Raise("TypeError") ELSE Raise("AttributeError")

\* Mutant: a failed pop falls back to the whole envelope.
get_transaction_trim_envelope(body, scope) ==
    LET data == Subscript(body, "data")
    IN  IF Raised(data) THEN body
        ELSE LET txn == Subscript(data.value, "transaction")
             IN  IF Raised(txn) THEN body
                 ELSE LET T == txn.value
                          popped == Pop(T, "data")
                      IN  IF scope = "summary"
                            THEN IF Raised(popped) THEN body
                                 ELSE JObj(DictWithout(T.dict, "data"))
                          ELSE IF scope = "full"
                            THEN IF Raised(popped) THEN body
                                 ELSE popped.value
                          ELSE T

\* Mutant: the summary keeps the transaction's data field.
get_transaction_trim_keep(body, scope) ==
    LET data == Subscript(body, "data")
    IN  IF Raised(data) THEN body
        ELSE LET txn == Subscript(data.value, "transaction")
             IN  IF Raised(txn) THEN body
                 ELSE LET T == txn.value
                          popped == Pop(T, "data")
                      IN  IF scope = "full" /\ ~Raised(popped)
                            THEN popped.value
                            ELSE T

\* The value of result at the return statement, for result = res.json() = body.
\* The bare except leaves result as last assigned.
get_transaction_trim(body, scope) ==
    LET data == Subscript(body, "data")
    IN  IF Raised(data) THEN body
        ELSE LET txn == Subscript(data.value, "transaction")
             IN  IF Raised(txn) THEN body
                 ELSE LET T == txn.value
                          popped == Pop(T, "data")
                      IN  IF scope = "summary"
                            THEN IF Raised(popped) THEN T
                                 ELSE JObj(DictWithout(T.dict, "data"))
                          ELSE IF scope = "full"
                            THEN IF Raised(popped) THEN T
                                 ELSE popped.value
                          ELSE T

-----------------------------------------------------------------------------
(* Startup *)

\* Mutant: the environment variable wins over the flag.
startup_apikey_env_first(flag, env) == IF TruthyStr(env) THEN env ELSE flag

\* The key main() stores in local mode: the flag if truthy, else the
\* environment variable.
startup_apikey(flag, env) == IF TruthyStr(flag) THEN flag ELSE env

Init(argvs, envs) ==
    /\ argv \in argvs
    /\ environ \in envs
    /\ phase = "boot"
    /\ remote = FALSE
    /\ anchain_apikey = None
    /\ pc = [i \in Req |-> "idle"]
    /\ call = [i \in Req |-> NoCall]
    /\ headers = [i \in Req |-> EmptyDict]
    /\ apikey = [i \in Req |-> None]
    /\ outbound = [i \in Req |-> <<>>]
    /\ reply = [i \in Req |-> NoResult]
    /\ result = [i \in Req |-> NoResult]

main ==
    /\ phase = "boot"
    /\ IF argv.rm
         THEN /\ remote' = TRUE
              /\ phase' = "serving"
              /\ UNCHANGED anchain_apikey
         ELSE /\ anchain_apikey' = startup_apikey(argv.apikey, environ)
              /\ phase' = IF TruthyStr(anchain_apikey') THEN "serving" ELSE "failed"
              /\ UNCHANGED remote
    /\ UNCHANGED <<argv, environ, pc, call, headers, apikey, outbound, reply, result>>

-----------------------------------------------------------------------------
(* Tool invocations *)

\* The transport hands a tool call to a handler, with the inbound request's
\* headers as that invocation's request context.
Dispatch(i, calls, hdrs) ==
    /\ phase = "serving"
    /\ pc[i] = "idle"
    /\ \E c \in calls, h \in hdrs :
          /\ call' = [call EXCEPT ![i] = c]
          /\ headers' = [headers EXCEPT ![i] = h]
    /\ pc' = [pc EXCEPT ![i] = "called"]
    /\ UNCHANGED <<globals, apikey, outbound, reply, result>>

\* apikey = check_apikey()
Resolve(i) ==
    /\ pc[i] = "called"
    /\ LET r == check_apikey(i)
       IN  IF Raised(r)
             THEN /\ result' = [result EXCEPT ![i] = r]
                  /\ pc' = [pc EXCEPT ![i] = "done"]
                  /\ UNCHANGED apikey
             ELSE /\ apikey' = [apikey EXCEPT ![i] = Some(r.value)]
                  /\ pc' = [pc EXCEPT ![i] = "keyed"]
                  /\ UNCHANGED result
    /\ UNCHANGED <<globals, call, headers, outbound, reply>>

\* requests.get(...) / requests.post(...) puts the request on the wire
Issue(i, request) ==
    /\ pc[i] = "keyed"
    /\ outbound' = [outbound EXCEPT ![i] = Append(@, request)]
    /\ pc' = [pc EXCEPT ![i] = "sent"]
    /\ UNCHANGED <<globals, call, headers, apikey, reply, result>>

ConnectionError == [kind |-> "error", exc |-> "ConnectionError"]
Response(status, body) == [kind |-> "response", status |-> status, body |-> body]
NotJson == [notjson |-> TRUE]

\* What a handler that returns res.json() gives for the vendor's answer r:
\* requests raises, or res.json() raises, or the decoded body is returned.
pass_through(r) ==
    IF r.kind = "error" THEN Raise(r.exc)
    ELSE IF r.body = NotJson THEN Raise("JSONDecodeError")
    ELSE Return(r.body)

\* The same for get_transaction called with c: the decoded body is trimmed.
get_transaction_outcome(c, r) ==
    IF r.kind = "error" THEN Raise(r.exc)
    ELSE IF r.body = NotJson THEN Raise("JSONDecodeError")
    ELSE Return(get_transaction_trim(r.body, Bind(c.scope, DefaultTxScope)))

\* Mutant: a failed round trip is tried again.
Complete_retry(i, r, outcome) ==
    /\ pc[i] = "sent"
    /\ reply' = [reply EXCEPT ![i] = r]
    /\ IF Raised(outcome)
         THEN pc' = [pc EXCEPT ![i] = "keyed"] /\ UNCHANGED result
         ELSE pc' = [pc EXCEPT ![i] = "done"]
              /\ result' = [result EXCEPT ![i] = outcome]
    /\ UNCHANGED <<globals, call, headers, apikey, outbound>>

\* The vendor's answer r arrives and the handler ends with outcome.
Complete(i, r, outcome) ==
    /\ pc[i] = "sent"
    /\ reply' = [reply EXCEPT ![i] = r]
    /\ result' = [result EXCEPT ![i] = outcome]
    /\ pc' = [pc EXCEPT ![i] = "done"]
    /\ UNCHANGED <<globals, call, headers, apikey, outbound>>

\* The invocation is over: its result went to the caller, its locals and
\* its request context are gone.
Finish(i) ==
    /\ pc[i] = "done"
    /\ pc' = [pc EXCEPT ![i] = "idle"]
    /\ call' = [call EXCEPT ![i] = NoCall]
    /\ headers' = [headers EXCEPT ![i] = EmptyDict]
    /\ apikey' = [apikey EXCEPT ![i] = None]
    /\ outbound' = [outbound EXCEPT ![i] = <<>>]
    /\ reply' = [reply EXCEPT ![i] = NoResult]
    /\ result' = [result EXCEPT ![i] = NoResult]
    /\ UNCHANGED globals

crypto_screening(i, replies) ==
    /\ call[i].tool = "crypto_screening"
    /\ \/ Resolve(i)
       \/ Issue(i, crypto_screening_request(call[i], apikey[i][1]))
       \/ \E r \in replies : Complete(i, r, pass_through(r))

crypto_activity_screening(i, replies) ==
    /\ call[i].tool = "crypto_activity_screening"
    /\ \/ Resolve(i)
       \/ Issue(i, crypto_activity_screening_request(call[i], apikey[i][1]))
       \/ \E r \in replies : Complete(i, r, pass_through(r))

crypto_attribution_screening(i, replies) ==
    /\ call[i].tool = "crypto_attribution_screening"
    /\ \/ Resolve(i)
       \/ Issue(i, crypto_attribution_screening_request(call[i], apikey[i][1]))
       \/ \E r \in replies : Complete(i, r, pass_through(r))

sanctions_screening(i, replies) ==
    /\ call[i].tool = "sanctions_screening"
    /\ \/ Resolve(i)
       \/ Issue(i, sanctions_screening_request(call[i], apikey[i][1]))
       \/ \E r \in replies : Complete(i, r, pass_through(r))

ip_screening(i, replies) ==
    /\ call[i].tool = "ip_screening"
    /\ \/ Resolve(i)
       \/ Issue(i, ip_screening_request(call[i], apikey[i][1]))
       \/ \E r \in replies : Complete(i, r, pass_through(r))

\* auto_trace builds its payload from its arguments before check_apikey();
\* the payload reads nothing but the arguments, so it is computed at Issue.
auto_trace(i, replies) ==
    /\ call[i].tool = "auto_trace"
    /\ \/ Resolve(i)
       \/ Issue(i, auto_trace_request(call[i], apikey[i][1]))
       \/ \E r \in replies : Complete(i, r, pass_through(r))

get_source_code(i, replies) ==
    /\ call[i].tool = "get_source_code"
    /\ \/ Resolve(i)
       \/ Issue(i, get_source_code_request(call[i], apikey[i][1]))
       \/ \E r \in replies : Complete(i, r, pass_through(r))

get_transaction(i, replies) ==
    /\ call[i].tool = "get_transaction"
    /\ \/ Resolve(i)
       \/ Issue(i, get_transaction_request(call[i], apikey[i][1]))
       \/ \E r \in replies : Complete(i, r, get_transaction_outcome(call[i], r))

-----------------------------------------------------------------------------
(* Inputs *)

Flags == {None, Some(""), Some("kA")}
Envs == {None, Some(""), Some("kB")}
Argvs == [rm : BOOLEAN, apikey : Flags]

\* Inbound header sets: no x-api-key, an empty one, two tenants' keys.
Headers == {EmptyDict, XApiKey(""), XApiKey("k1"), XApiKey("k2")}

OptLists == {None, Some(<<>>), Some(<<"John Doe">>)}

CryptoCalls ==
    [tool : {"crypto_screening", "crypto_activity_screening",
             "crypto_attribution_screening"},
     address : {"bc1q"}, protocol : {"btc"}]

SanctionsCalls(schemas, scopes, names, others) ==
    [tool : {"sanctions_screening"}, schema : schemas, scope : scopes,
     name : names, idNumber : others, nationality : others, birthYear : others]

IpCalls == [tool : {"ip_screening"}, ip_address : {"10.0.0.1"}]

AutoTraceCalls(addresses, hashes, amounts, tokens) ==
    [tool : {"auto_trace"}, protocol : {"eth"}, time_from : {1}, time_to : {2},
     address : addresses, txn_hash : hashes, direction : {None},
     time_window : {None}, min_amount : {None},
     max_amount : amounts, token : tokens]

SourceCalls == [tool : {"get_source_code"}, address : {"0xc0de"}, protocol : {"eth"}]

TransactionCalls(scopes) ==
    [tool : {"get_transaction"}, transaction_hash : {"0xbeef"}, protocol : {"bnb"},
     scope : scopes]

\* One or two calls of every tool: the inputs of the concurrent server.
FewCalls ==
    CryptoCalls
    \cup SanctionsCalls({None}, {None}, {None, Some(<<"John Doe">>)}, {None})
    \cup IpCalls
    \cup AutoTraceCalls({None, Some("0xf454")}, {Some("0xbeef")}, {None}, {None})
    \cup SourceCalls
    \cup TransactionCalls({None})

\* The argument combinations of the tools that assemble a payload or trim.
ManyCalls ==
    CryptoCalls
    \cup SanctionsCalls({None, Some("company")}, {None, Some("full")},
                        OptLists, OptLists)
    \cup IpCalls
    \cup AutoTraceCalls({None, Some(""), Some("0xf454")},
                        {None, Some(""), Some("0xbeef")},
                        {None, Some(0), Some(5)}, {None, Some(""), Some("usdt")})
    \cup SourceCalls
    \cup TransactionCalls({None, Some("summary"), Some("full"), Some("raw")})

\* Decoded bodies of the vendor API.
OkBody == JObj([status |-> JStr("ok")])
ErrBody == JObj([error |-> JStr("forbidden")])

\* Shapes of the object found at data.transaction.
Transactions ==
    { JObj([data |-> JStr("trace"), overview |-> JStr("ov")]),
      JObj([data |-> JObj([calls |-> JList(<<>>)]), overview |-> JStr("ov"),
            balance_table |-> JList(<<>>)]),
      JObj([data |-> JNull]),
      JObj([overview |-> JStr("ov")]),
      JObj(EmptyDict),
      JList(<<>>), JStr("pending"), JNull }

\* Shapes of the object found at data.
Datas ==
    { JObj([transaction |-> t]) : t \in Transactions }
    \cup { JObj([transaction |-> t, cached |-> JStr("yes")]) : t \in Transactions }
    \cup { JObj(EmptyDict), JObj([contract |-> JStr("src")]),
           JList(<<>>), JStr("none"), JNull }

Envelopes ==
    { JObj([data |-> d]) : d \in Datas }
    \cup { JObj([data |-> d, status |-> JStr("ok")]) : d \in Datas }
    \cup { JObj(EmptyDict), ErrBody, JList(<<>>), JStr("error"), JNull }

BasicReplies ==
    { ConnectionError, Response(200, NotJson), Response(200, OkBody),
      Response(403, ErrBody) }

Tools ==
    {"crypto_screening", "crypto_activity_screening",
     "crypto_attribution_screening", "sanctions_screening", "ip_screening",
     "auto_trace", "get_source_code", "get_transaction"}

FewReplies == [tool \in Tools |->
    IF tool = "get_transaction"
      THEN BasicReplies
           \cup { Response(200,
                    JObj([data |-> JObj([transaction |->
                        JObj([data |-> JStr("trace"), overview |-> JStr("ov")])])])) }
      ELSE BasicReplies]

ManyReplies == [tool \in Tools |->
    IF tool = "get_transaction"
      THEN BasicReplies \cup { Response(200, e) : e \in Envelopes }
      ELSE BasicReplies]

-----------------------------------------------------------------------------
(* Specifications *)

Serve(i, calls, hdrs, replies) ==
    \/ Dispatch(i, calls, hdrs)
    \/ crypto_screening(i, replies["crypto_screening"])
    \/ crypto_activity_screening(i, replies["crypto_activity_screening"])
    \/ crypto_attribution_screening(i, replies["crypto_attribution_screening"])
    \/ sanctions_screening(i, replies["sanctions_screening"])
    \/ ip_screening(i, replies["ip_screening"])
    \/ auto_trace(i, replies["auto_trace"])
    \/ get_source_code(i, replies["get_source_code"])
    \/ get_transaction(i, replies["get_transaction"])
    \/ Finish(i)

\* The server handling up to NumReq inbound requests at once.
ServerInit == Init([rm : BOOLEAN, apikey : {None, Some("kA")}], {None})

Next ==
    \/ main
    \/ \E i \in Req : Serve(i, FewCalls, Headers, FewReplies)

Spec == ServerInit /\ [][Next]_vars

\* One invocation at a time, over the argument, header, startup and reply
\* combinations.
ToolInit == Init(Argvs, Envs)

ToolNext ==
    \/ main
    \/ Serve(1, ManyCalls, {EmptyDict, XApiKey("k1")}, ManyReplies)

ToolSpec == ToolInit /\ [][ToolNext]_vars

-----------------------------------------------------------------------------
(* Vocabulary of the properties *)

\* The credential an invocation presents: the x-api-key header of its own
\* inbound request in remote mode, the stored key in local mode; "" when
\* there is none.
Presented(i) ==
    IF remote
      THEN IF "x-api-key" \in DOMAIN headers[i] THEN headers[i]["x-api-key"] ELSE ""
      ELSE IF anchain_apikey = None THEN "" ELSE anchain_apikey[1]

\* The Authorization headers of the requests an invocation has issued.
Authorizations(i) ==
    { outbound[i][n].headers.Authorization : n \in DOMAIN outbound[i] }

ValidationError == Raise("ValidationError")

\* C1: in every tool and in both modes, an invocation whose credential is
\* absent or empty fails with a ValidationError and never issues a request.
C1_NoCredentialNoRequest ==
    \A i \in Req :
        (pc[i] # "idle" /\ Presented(i) = "")
            => /\ outbound[i] = <<>>
               /\ pc[i] \in {"called", "done"}
               /\ pc[i] = "done" => result[i] = ValidationError

C1_Witness ==
    \E i \in Req :
        /\ pc[i] = "done"
        /\ call[i].tool = "auto_trace"
        /\ Presented(i) = ""
        /\ result[i] = ValidationError
        /\ outbound[i] = <<>>

\* C2: in remote mode, whatever the interleaving of concurrent invocations,
\* every request an invocation issues carries "Bearer " and the x-api-key of
\* that invocation's own inbound request, and an invocation whose header is
\* absent or empty fails without a request while others are in flight.
C2_OwnKeyPerRequest ==
    remote =>
        \A i \in Req :
            /\ outbound[i] # <<>>
                  => /\ "x-api-key" \in DOMAIN headers[i]
                     /\ headers[i]["x-api-key"] # ""
                     /\ Authorizations(i) = {"Bearer " \o headers[i]["x-api-key"]}
            /\ (pc[i] # "idle" /\ DictGet(headers[i], "x-api-key", "") = "")
                  => /\ outbound[i] = <<>>
                     /\ pc[i] = "done" => result[i] = ValidationError

C2_Witness ==
    /\ remote
    /\ pc[1] = "sent" /\ pc[2] = "sent"
    /\ headers[1] = XApiKey("k1") /\ headers[2] = XApiKey("k2")
    /\ Authorizations(1) = {"Bearer k1"}
    /\ Authorizations(2) = {"Bearer k2"}

\* C3: in local mode every request carries "Bearer " and the configured
\* credential, whatever the inbound headers are, and no invocation fails for
\* want of a credential.
C3_LocalKeyOnly ==
    (~remote /\ phase = "serving") =>
        \A i \in Req :
            /\ outbound[i] # <<>> => Authorizations(i) = {"Bearer " \o anchain_apikey[1]}
            /\ pc[i] = "done" => result[i] # ValidationError
            /\ pc[i] \in {"sent", "done"} => outbound[i] # <<>>

C3_Witness ==
    \E i \in Req :
        /\ ~remote
        /\ anchain_apikey = Some("kA")
        /\ headers[i] = XApiKey("k1")
        /\ pc[i] = "done"
        /\ Authorizations(i) = {"Bearer kA"}

-----------------------------------------------------------------------------
(* get_transaction *)

\* Invocation i is a finished get_transaction whose response decoded as JSON.
Trimmed(i) ==
    /\ pc[i] = "done"
    /\ call[i].tool = "get_transaction"
    /\ reply[i].kind = "response"
    /\ reply[i].body # NotJson

ScopeOf(i) == IF call[i].scope = None THEN "summary" ELSE call[i].scope[1]

HasKey(v, k) == IsDict(v) /\ k \in DOMAIN v.dict

\* The three ways a key can be missing on the way to data.transaction.data.
LacksData(e) == IsDict(e) /\ ~HasKey(e, "data")
LacksTransaction(e) ==
    HasKey(e, "data") /\ IsDict(e.dict.data) /\ ~HasKey(e.dict.data, "transaction")
LacksInnerData(e) ==
    /\ HasKey(e, "data") /\ HasKey(e.dict.data, "transaction")
    /\ IsDict(e.dict.data.dict.transaction)
    /\ ~HasKey(e.dict.data.dict.transaction, "data")
HasInnerData(e) ==
    /\ HasKey(e, "data") /\ HasKey(e.dict.data, "transaction")
    /\ HasKey(e.dict.data.dict.transaction, "data")

C5_SummaryAndFull ==
    \A i \in Req :
        (Trimmed(i) /\ HasInnerData(reply[i].body)) =>
            LET T == reply[i].body.dict.data.dict.transaction
                r == result[i]
            IN  /\ r.kind = "return"
                /\ ScopeOf(i) = "summary" =>
                      /\ IsDict(r.value)
                      /\ DOMAIN r.value.dict = (DOMAIN T.dict) \ {"data"}
                      /\ \A k \in DOMAIN r.value.dict : r.value.dict[k] = T.dict[k]
                /\ ScopeOf(i) = "full" => r.value = T.dict.data

C5_Witness ==
    \E i \in Req :
        /\ Trimmed(i)
        /\ call[i].scope = None
        /\ reply[i].body = JObj([data |-> JObj([transaction |->
                JObj([data |-> JObj([calls |-> JList(<<>>)]), overview |-> JStr("ov"),
                      balance_table |-> JList(<<>>)])])])
        /\ result[i] = Return(JObj([overview |-> JStr("ov"),
                                    balance_table |-> JList(<<>>)]))

-----------------------------------------------------------------------------
(* sanctions_screening and auto_trace payloads *)

PropertyKeys == {"name", "idNumber", "nationality", "birthYear"}

\* An optional list argument was passed and is not empty.
ProvidedList(o) == o # None /\ o[1] # <<>>

\* C6: sanctions_screening with none of name, idNumber, nationality and
\* birthYear set is rejected, and no request goes out.
C6_FailsFastWithoutProperties ==
    \A i \in Req :
        (call[i].tool = "sanctions_screening"
           /\ \A k \in PropertyKeys : ~ProvidedList(call[i][k]))
            => /\ outbound[i] = <<>>
               /\ pc[i] = "done" => result[i].kind = "raise"

\* C7: the body sanctions_screening posts has exactly the keys schema, scope
\* and properties; schema and scope are the passed values or 'person' and
\* 'basic'; properties has exactly the keys whose argument was provided
\* non-empty, each with the value passed.
C7_SanctionsBody ==
    \A i \in Req :
        (call[i].tool = "sanctions_screening" /\ outbound[i] # <<>>) =>
            LET c == call[i]
                q == outbound[i][1]
            IN  /\ q.method = "POST"
                /\ DOMAIN q.json = {"schema", "scope", "properties"}
                /\ q.json.schema = IF c.schema = None THEN "person" ELSE c.schema[1]
                /\ q.json.scope = IF c.scope = None THEN "basic" ELSE c.scope[1]
                /\ DOMAIN q.json.properties
                      = {k \in PropertyKeys : ProvidedList(c[k])}
                /\ \A k \in DOMAIN q.json.properties :
                      q.json.properties[k] = c[k][1]

C7_Witness ==
    \E i \in Req :
        /\ call[i].tool = "sanctions_screening"
        /\ call[i].name = Some(<<"John Doe">>)
        /\ call[i].idNumber = Some(<<>>)
        /\ call[i].nationality = None
        /\ outbound[i] # <<>>
        /\ outbound[i][1].json =
              [schema |-> "person", scope |-> "basic",
               properties |-> [name |-> <<"John Doe">>]]

\* An optional string argument was passed, with whatever value.
Given(o) == o # None
\* An optional string argument was passed and is not the empty string.
GivenNonEmpty(o) == o # None /\ o[1] # ""

ExactlyOneTarget(p) == ("address" \in DOMAIN p) # ("txnhash" \in DOMAIN p)

\* C8 as claimed: the payload has exactly one of 'address' and 'txnhash':
\* 'address' whenever address is given, else 'txnhash' with the passed
\* txn_hash, which is None when neither is given.
C8_AddressWheneverGiven ==
    \A i \in Req :
        (call[i].tool = "auto_trace" /\ outbound[i] # <<>>) =>
            LET c == call[i]
                p == outbound[i][1].json
            IN  /\ ExactlyOneTarget(p)
                /\ Given(c.address)
                      => /\ "address" \in DOMAIN p /\ "txnhash" \notin DOMAIN p
                         /\ p.address = c.address[1]
                /\ ~Given(c.address)
                      => /\ "txnhash" \in DOMAIN p /\ "address" \notin DOMAIN p
                         /\ p.txnhash = c.txn_hash
                /\ (~Given(c.address) /\ ~Given(c.txn_hash)) => p.txnhash = None

\* C8 amended: the payload has exactly one of 'address' and 'txnhash':
\* 'address' whenever address is given and not empty, else (address absent
\* or the empty string) 'txnhash' with the passed txn_hash, which is None
\* when txn_hash was not given.
C8_AddressWhenNonEmpty ==
    \A i \in Req :
        (call[i].tool = "auto_trace" /\ outbound[i] # <<>>) =>
            LET c == call[i]
                p == outbound[i][1].json
            IN  /\ ExactlyOneTarget(p)
                /\ GivenNonEmpty(c.address)
                      => /\ "address" \in DOMAIN p /\ "txnhash" \notin DOMAIN p
                         /\ p.address = c.address[1]
                /\ ~GivenNonEmpty(c.address)
                      => /\ "txnhash" \in DOMAIN p /\ "address" \notin DOMAIN p
                         /\ p.txnhash = c.txn_hash
                /\ (~GivenNonEmpty(c.address) /\ ~Given(c.txn_hash))
                      => p.txnhash = None

C8_Witness ==
    \E i \in Req :
        /\ call[i].tool = "auto_trace"
        /\ call[i].address = Some("")
        /\ call[i].txn_hash = Some("0xbeef")
        /\ outbound[i] # <<>>
        /\ "address" \notin DOMAIN outbound[i][1].json
        /\ outbound[i][1].json.txnhash = Some("0xbeef")

-----------------------------------------------------------------------------
(* Round trips and startup *)

\* C9: an invocation issues at most one request, and exactly one when its
\* credential is not empty; a failed round trip is not repeated and reaches
\* the caller (the exception requests raised, or the body of an HTTP error
\* response returned like any other body); each request and result comes
\* from the invocation's own credential and reply, and nothing of a finished
\* invocation is left for the next one.
C9_SingleRoundTrip ==
    \A i \in Req :
        /\ Len(outbound[i]) <= 1
        /\ (pc[i] \in {"sent", "done"} /\ Presented(i) # "") => Len(outbound[i]) = 1
        /\ outbound[i] # <<>> => Authorizations(i) = {"Bearer " \o Presented(i)}
        /\ (pc[i] = "done" /\ reply[i] # NoResult) =>
              LET r == reply[i]
              IN  /\ r.kind = "error" => result[i] = Raise(r.exc)
                  /\ (r.kind = "response" /\ r.body = NotJson)
                        => result[i] = Raise("JSONDecodeError")
                  /\ (r.kind = "response" /\ r.body # NotJson)
                        => /\ result[i].kind = "return"
                           /\ call[i].tool # "get_transaction"
                                 => result[i].value = r.body
        /\ (pc[i] = "done" /\ reply[i] = NoResult) => result[i] = ValidationError
        /\ pc[i] = "idle" =>
              /\ apikey[i] = None /\ headers[i] = EmptyDict /\ outbound[i] = <<>>
              /\ reply[i] = NoResult /\ result[i] = NoResult

C9_Witness ==
    \E i \in Req :
        /\ pc[i] = "done"
        /\ call[i].tool = "get_transaction"
        /\ reply[i] = ConnectionError
        /\ result[i] = Raise("ConnectionError")
        /\ Len(outbound[i]) = 1
        /\ \E j \in Req : j # i /\ pc[j] = "done" /\ result[j] = Return(OkBody)

\* The key local mode must end up with: the flag's value when the flag
\* yields a non-empty key, else the environment variable's.
ConfiguredKey ==
    IF argv.apikey # None /\ argv.apikey[1] # "" THEN argv.apikey ELSE environ

C10_State ==
    /\ phase = "serving" =>
          /\ remote = argv.rm
          /\ remote => anchain_apikey = None
          /\ ~remote => /\ anchain_apikey = ConfiguredKey
                        /\ anchain_apikey # None /\ anchain_apikey[1] # ""
    /\ phase = "failed" =>
          /\ ~argv.rm
          /\ ConfiguredKey = None \/ ConfiguredKey[1] = ""
    /\ phase # "serving" => \A i \in Req : pc[i] = "idle"

C10_Step ==
    phase = "serving" =>
        /\ phase' = "serving"
        /\ remote' = remote
        /\ anchain_apikey' = anchain_apikey

\* C10: while the server serves tool calls, the transport mode and the
\* stored credential are the values startup fixed and never change: in local
\* mode the non-empty flag value, else the environment variable, with startup
\* failing when neither is non-empty; in remote mode no stored credential.
C10_FixedAtStartup == [](C10_State) /\ [][C10_Step]_vars

C10_Witness ==
    /\ phase = "serving"
    /\ ~remote
    /\ argv.apikey = Some("")
    /\ anchain_apikey = Some("kB")
    /\ pc[1] = "done"
    /\ result[1].kind = "return"

=============================================================================
